---- MODULE Spec2Model ----
(***************************************************************************)
(* Model of the Binance 15m move alert bot (src/main.py).                  *)
(*                                                                         *)
(* The process is one asyncio event loop: main_loop runs check_once        *)
(* forever; check_once fetches the symbol universe, spawns one worker      *)
(* task per symbol and joins them with asyncio.gather.  A worker fetches   *)
(* the latest candle under a semaphore, evaluates the threshold rule,      *)
(* consults the sqlite dedup table, sends a Telegram message and records   *)
(* the (symbol, open_time) key.  Every await is a point where other tasks  *)
(* run, so each action below is the code between two awaits.               *)
(*                                                                         *)
(* The exchange and the messaging service are the environment: what they   *)
(* answer to each request is an input chosen with \E.                      *)
(***************************************************************************)
EXTENDS Integers, Sequences, FiniteSets

\* ---------------------------------------------------------------- bounds
MaxElapsed == 75    \* longest cycle, in seconds, the sleep is computed for
MaxExtra == 1       \* symbols of the counted universe beyond the semaphore's 50

\* ------------------------------------------------------ program constants
THRESHOLD == 6      \* percent
Attempts == 3       \* range(3) in both retry loops
SemCap == 50        \* asyncio.Semaphore(50)
POLL_SECONDS == 60  \* seconds

\* ------------------------------------------------------------ environment
\* The exchange lists each symbol once: `symbols` has no duplicates.
Symbols == {"ABCUSDT", "XYZUSDT"}
\* The code only compares open times for equality: two values give "the
\* same candle" and "another candle".
OpenTimes == {1000, 2000}
\* limit=1 asks for the latest candle: the runs of main_loop followed are
\* those within candle 2000; candle 1000 is the one before it, which an
\* earlier run of the bot may have recorded.
LatestTimes == {2000}
\* <<open, close>> pairs the exchange may report: a move of exactly -6%,
\* a move of +2%, a move of -5.9% (short of the threshold by less than one
\* percent), and a candle whose open is zero.
Prices == {<<100, 94>>, <<100, 102>>, <<1000, 941>>, <<0, 5>>}
Candles == {[open_time |-> t, open |-> p[1], close |-> p[2]] : t \in LatestTimes, p \in Prices}
None == [open_time |-> 0, open |-> 0, close |-> 0]
Keys == Symbols \X OpenTimes
OldKeys == Symbols \X (OpenTimes \ LatestTimes)

\* Answers to one HTTP request, named by the branch of the code they take:
\*   "200" a good status, "empty" a good status with an empty array,
\*   "400" another error status (raise_for_status raises ClientResponseError),
\*   "ClientError" a transport error derived from aiohttp.ClientError,
\*   "TimeoutError" an exception that is not an aiohttp.ClientError (the
\*   session's total timeout raises asyncio.TimeoutError).
FetchBlocked == {"418", "429", "451"}
FetchAnswers == {"200", "empty", "429", "400", "ClientError", "TimeoutError"}
SendTransient == {"429", "500", "502", "503", "504"}
SendAnswers == {"200", "429", "400", "ClientError", "TimeoutError"}

\* --------------------------------------------------------- pure functions
Abs(x) == IF x < 0 THEN -x ELSE x

\* pct = (close - open) / open * 100.0, for open # 0.  The value is kept
\* as the fraction num / den, not rounded: the float the code computes is
\* this quotient rounded to the nearest double (-5.8999999999999995 for
\* -59/10), and for whole-number prices it lies on the same side of the
\* threshold as the quotient, and on it when the quotient does.
Pct(k) == [num |-> (k.close - k.open) * 100, den |-> k.open]

\* the division raises ZeroDivisionError
PctRaises(k) == k.open = 0

QualifiesNoScale(k) == Abs(Pct(k).num) * 100 >= THRESHOLD * Abs(Pct(k).den)

\* abs(pct) >= THRESHOLD: abs(num / den) >= THRESHOLD, den # 0
Qualifies(k) == Abs(Pct(k).num) >= THRESHOLD * Abs(Pct(k).den)

AlertedNever(store, sym, ot) == FALSE

\* SELECT 1 FROM alerts WHERE symbol=? AND open_time=?
already_alerted(store, sym, ot) == <<sym, ot>> \in store

MarkStrict(store, sym, ot) ==
    IF <<sym, ot>> \in store THEN {<<"IntegrityError", 0>>} ELSE store \cup {<<sym, ot>>}

\* INSERT OR IGNORE INTO alerts(symbol, open_time)
mark_alerted(store, sym, ot) == store \cup {<<sym, ot>>}

DbInitFresh(store) == {}

\* CREATE TABLE IF NOT EXISTS alerts
db_init(store) == store

RecordAlways(ok) == TRUE

\* if ok:
ShouldRecord(ok) == ok

\* await asyncio.sleep(1 + attempt * 2)
Backoff(attempt) == 1 + attempt * 2

\* get_latest_15m_kline: `answers[i]` is the exchange's answer to request i,
\* `k` the candle a "200" answer carries.  The result says what the call
\* returns ("candle", "none") or that it raises, after how many requests
\* and which sleeps.
RECURSIVE KlineFrom(_, _, _, _)
KlineFrom(attempt, answers, k, slept) ==
    IF attempt >= Attempts THEN [res |-> "none", k |-> None, n |-> attempt, slept |-> slept]
    ELSE LET a == answers[attempt + 1] IN
        IF a \in FetchBlocked \/ a \in {"400", "ClientError"}
        THEN KlineFrom(attempt + 1, answers, k, Append(slept, Backoff(attempt)))
        ELSE IF a = "TimeoutError"
        THEN [res |-> "raise", k |-> None, n |-> attempt + 1, slept |-> slept]
        ELSE IF a = "empty"
        THEN [res |-> "none", k |-> None, n |-> attempt + 1, slept |-> slept]
        ELSE [res |-> "candle", k |-> k, n |-> attempt + 1, slept |-> slept]

get_latest_15m_kline(answers, k) == KlineFrom(0, answers, k, <<>>)

\* send_telegram: `answers[i]` is the messaging service's answer to post i.
RECURSIVE SendFrom(_, _, _)
SendFrom(attempt, answers, slept) ==
    IF attempt >= Attempts THEN [res |-> "false", n |-> attempt, slept |-> slept]
    ELSE LET a == answers[attempt + 1] IN
        IF a \in SendTransient \/ a \in {"400", "ClientError"}
        THEN SendFrom(attempt + 1, answers, Append(slept, Backoff(attempt)))
        ELSE IF a = "TimeoutError"
        THEN [res |-> "raise", n |-> attempt + 1, slept |-> slept]
        ELSE [res |-> "true", n |-> attempt + 1, slept |-> slept]

send_telegram(answers) == SendFrom(0, answers, <<>>)

Max(a, b) == IF a >= b THEN a ELSE b

SleepNoClamp(elapsed) == POLL_SECONDS - elapsed

\* max(0, POLL_SECONDS - elapsed)
SleepFor(elapsed) == Max(0, POLL_SECONDS - elapsed)

\* The answers one call can meet: a request is made only after every
\* earlier one was answered by something the loop retries on.
RunsOver(answerSet, retried) ==
    {run \in UNION {[1..n -> answerSet] : n \in 1..Attempts} :
        /\ \A i \in 1..(Len(run) - 1) : run[i] \in retried
        /\ Len(run) < Attempts => run[Len(run)] \notin retried}

FetchRuns == RunsOver(FetchAnswers, FetchBlocked \cup {"400", "ClientError"})
SendRuns == RunsOver(SendAnswers, SendTransient \cup {"400", "ClientError"})

\* the candle carried by the answer a run ends with, if it is a "200"
CandlesOf(run) == IF run[Len(run)] = "200" THEN Candles ELSE {None}

\* every way a call of get_latest_15m_kline, of send_telegram, can end
\* for its caller: what it returns, or that it raises
FetchResults ==
    {[res |-> x.res, k |-> x.k] :
        x \in {get_latest_15m_kline(ak[1], ak[2]) :
                    ak \in {y \in FetchRuns \X (Candles \cup {None}) : y[2] \in CandlesOf(y[1])}}}
SendResults == {[res |-> send_telegram(run).res] : run \in SendRuns}

\* --------------------------------------------------------------- state
VARIABLES
    db,         \* rows of the alerts table: a set of <<symbol, open_time>>
    lpc,        \* where main_loop is
    workers,    \* the worker tasks of the current check_once, per symbol
    orphans,    \* worker tasks of cycles that already ended by raising:
                \* `at` the positions in which there are such tasks, `many`
                \* whether some position holds two or more of them.  While
                \* `many` is FALSE every position stands for one task.
    alerts,     \* the alerts list of the current check_once
    printed,    \* what main_loop printed for the cycle that just ended
    uni,        \* how get_symbols ended in the current cycle
    delivered,  \* history: the keys a post was answered "200" for
    failed,     \* history: the keys a send_telegram call returned False for
    tracked,    \* which of the two histories this run records
    call,       \* the last call of a function applied on its own (store
                \* operations, the two retry loops, the sleep computation)
    pool        \* one cycle's workers counted by position, for a universe
                \* larger than the semaphore

vars == <<db, lpc, workers, orphans, alerts, printed, uni, delivered, failed, tracked, call, pool>>

\* pc: "none" no task, "new" created, "fetch" inside `async with sem`,
\* "send" awaiting send_telegram, "sent" send_telegram has its result,
\* "done" returned, "raised" ended by an exception; after the cycle ended
\* by raising: "detached" (goes on as a task of an ended cycle).
\* calls counts this worker's calls of send_telegram.
NoWorker == [pc |-> "none", k |-> None, ok |-> FALSE, calls |-> 0]
NewWorker == [NoWorker EXCEPT !.pc = "new"]

KeyOf(s, w) == <<s, w.k.open_time>>

\* value of the cycle's semaphore: SemCap minus the workers inside `async with sem`
SemValue == SemCap - Cardinality({s \in Symbols : workers[s].pc = "fetch"})

\* worker from the return of get_latest_15m_kline to its next await
AfterFetch(w, sym, r, store) ==
    IF r.res = "raise" THEN [w EXCEPT !.pc = "raised"]
    ELSE IF r.res = "none" THEN [w EXCEPT !.pc = "done"]
    ELSE IF PctRaises(r.k) THEN [w EXCEPT !.pc = "raised", !.k = r.k]
    ELSE IF Qualifies(r.k) /\ ~already_alerted(store, sym, r.k.open_time)
         THEN [w EXCEPT !.pc = "send", !.k = r.k, !.calls = w.calls + 1]
    ELSE [w EXCEPT !.pc = "done", !.k = r.k]

\* worker when send_telegram ends
AfterSend(w, r) ==
    IF r.res = "raise" THEN [w EXCEPT !.pc = "raised"]
    ELSE [w EXCEPT !.pc = "sent", !.ok = (r.res = "true")]

\* the history variables after a send_telegram call for `key` ended with r
\* (the histories are auxiliary: they are read by the properties only, and
\* a specification records the ones its properties read)
DeliveredAfter(key, r) ==
    IF "delivered" \in tracked /\ r.res = "true" THEN delivered \cup {key} ELSE delivered

FailedAfter(key, r) ==
    IF "failed" \in tracked /\ r.res = "false" THEN failed \cup {key} ELSE failed

\* no task of an ended cycle
NoOrphans == [at |-> {}, many |-> FALSE]

\* no function has been applied on its own; no pool of counted workers
NoCall == [fn |-> "none"]
NoPool == [phase |-> "idle", new |-> 0, fetch |-> 0, send |-> 0, ended |-> 0, sem |-> 0, exc |-> FALSE, left |-> {}]

\* main_loop has not begun its first cycle
Idle ==
    /\ lpc = "top"
    /\ workers = [s \in Symbols |-> NoWorker]
    /\ orphans = NoOrphans
    /\ alerts = <<>>
    /\ printed = "none"
    /\ uni = "none"
    /\ delivered = {}
    /\ failed = {}

Start ==
    /\ db = {}
    /\ Idle
    /\ call = NoCall
    /\ pool = NoPool

\* the bot is started on a new DB_PATH, or on one in which an earlier run
\* has recorded the candle before for every symbol
Begin ==
    /\ db \in {{}, OldKeys}
    /\ Idle
    /\ call = NoCall
    /\ pool = NoPool

Init == Begin /\ tracked = {"delivered"}

InitRetry == Begin /\ tracked = {"failed"}

InitLoop == Start /\ tracked = {}

\* ----------------------------------------------------------- main_loop
\* check_once up to its first await: db_init, open the session, request
\* the exchange info.
StartCycle ==
    /\ lpc = "top"
    /\ db' = db_init(db)
    /\ lpc' = "universe"
    /\ UNCHANGED <<workers, orphans, alerts, printed, uni, delivered, failed, tracked, call, pool>>

\* get_symbols returns: one worker task per symbol, then await gather.
UniverseOk(U) ==
    /\ lpc = "universe"
    /\ workers' = [s \in Symbols |-> IF s \in U THEN NewWorker ELSE NoWorker]
    /\ lpc' = "gather"
    /\ uni' = "ok"
    /\ UNCHANGED <<db, orphans, alerts, printed, delivered, failed, tracked, call, pool>>

UniverseFailPartial ==
    /\ lpc = "universe"
    /\ \E U \in SUBSET Symbols :
        workers' = [s \in Symbols |-> IF s \in U THEN NewWorker ELSE NoWorker]
    /\ uni' = "error"
    /\ lpc' = "gather"
    /\ UNCHANGED <<db, orphans, alerts, printed, delivered, failed, tracked, call, pool>>

\* get_symbols raises; main_loop's except prints the error.
UniverseFail ==
    /\ lpc = "universe"
    /\ uni' = "error"
    /\ printed' = "error"
    /\ lpc' = "sleep"
    /\ UNCHANGED <<db, workers, orphans, alerts, delivered, failed, tracked, call, pool>>

\* async with sem: (a new task's first step)
Acquire(s) ==
    /\ lpc = "gather"
    /\ workers[s].pc = "new"
    /\ SemValue > 0
    /\ workers' = [workers EXCEPT ![s].pc = "fetch"]
    /\ UNCHANGED <<db, lpc, orphans, alerts, printed, uni, delivered, failed, tracked, call, pool>>

\* get_latest_15m_kline ends; the semaphore is released, the candle evaluated
FetchReturn(s, r) ==
    /\ lpc = "gather"
    /\ workers[s].pc = "fetch"
    /\ workers' = [workers EXCEPT ![s] = AfterFetch(@, s, r, db)]
    /\ UNCHANGED <<db, lpc, orphans, alerts, printed, uni, delivered, failed, tracked, call, pool>>

\* send_telegram ends
SendReturn(s, r) ==
    /\ lpc = "gather"
    /\ workers[s].pc = "send"
    /\ delivered' = DeliveredAfter(KeyOf(s, workers[s]), r)
    /\ failed' = FailedAfter(KeyOf(s, workers[s]), r)
    /\ workers' = [workers EXCEPT ![s] = AfterSend(@, r)]
    /\ UNCHANGED <<db, lpc, orphans, alerts, printed, uni, tracked, call, pool>>

\* the worker runs again: if ok: mark_alerted; alerts.append
Record(s) ==
    /\ lpc = "gather"
    /\ workers[s].pc = "sent"
    /\ IF ShouldRecord(workers[s].ok)
       THEN /\ db' = mark_alerted(db, s, workers[s].k.open_time)
            /\ alerts' = Append(alerts, <<s, Pct(workers[s].k)>>)
       ELSE UNCHANGED <<db, alerts>>
    /\ workers' = [workers EXCEPT ![s].pc = "done"]
    /\ UNCHANGED <<lpc, orphans, printed, uni, delivered, failed, tracked, call, pool>>

\* gather returns when every worker has returned; main_loop prints the summary.
GatherReturn ==
    /\ lpc = "gather"
    /\ \A s \in Symbols : workers[s].pc \in {"none", "done"}
    /\ printed' = IF Len(alerts) > 0 THEN "sent" ELSE "noalerts"
    /\ lpc' = "sleep"
    /\ UNCHANGED <<db, workers, orphans, alerts, uni, delivered, failed, tracked, call, pool>>

\* gather propagates the first exception of a worker; the other workers
\* are not cancelled.  Every worker that has not ended goes on as a task of
\* an ended cycle: one waiting for the semaphore or for its candle as well
\* as one inside send_telegram or about to record.  A worker whose
\* send_telegram returned False has nothing left to do.
\* The position of a task of an ended cycle: "candle" it has not got its
\* candle yet (it waits for a slot of its check_once's semaphore or is
\* inside get_latest_15m_kline; that semaphore has more slots than there
\* are symbols and nothing else reads it), "send", "sent" as for a worker.
Detached(s) ==
    [sym |-> s,
     w |-> IF workers[s].pc \in {"new", "fetch"} THEN [workers[s] EXCEPT !.pc = "candle"] ELSE workers[s]]

GatherRaiseUncaught ==
    /\ lpc = "gather"
    /\ \E s \in Symbols : workers[s].pc = "raised"
    /\ lpc' = "crashed"
    /\ UNCHANGED <<db, workers, orphans, alerts, printed, uni, delivered, failed, tracked, call, pool>>

GoesOn(w) == w.pc \in {"new", "fetch", "send"} \/ (w.pc = "sent" /\ w.ok)

\* the workers of the current cycle that go on if gather raises now
Going == {Detached(s) : s \in {t \in Symbols : GoesOn(workers[t])}}

GatherRaise ==
    /\ lpc = "gather"
    /\ \E s \in Symbols : workers[s].pc = "raised"
    /\ orphans' = [at |-> orphans.at \cup Going, many |-> orphans.many \/ orphans.at \cap Going # {}]
    /\ workers' = [s \in Symbols |->
            IF GoesOn(workers[s]) THEN [workers[s] EXCEPT !.pc = "detached"]
            ELSE IF workers[s].pc = "sent" THEN [workers[s] EXCEPT !.pc = "done"]
            ELSE workers[s]]
    /\ printed' = "error"
    /\ lpc' = "sleep"
    /\ UNCHANGED <<db, alerts, uni, delivered, failed, tracked, call, pool>>

\* asyncio.sleep(max(0, POLL_SECONDS - elapsed)) is over: next iteration
Wake ==
    /\ lpc = "sleep"
    /\ lpc' = "top"
    /\ workers' = [s \in Symbols |-> NoWorker]
    /\ alerts' = <<>>
    /\ printed' = "none"
    /\ uni' = "none"
    /\ UNCHANGED <<db, orphans, delivered, failed, tracked, call, pool>>

\* ------------------------------------------------- tasks of ended cycles
\* One task in position o leaves it, for the positions Q (one position,
\* or none when the task ends).  `more` says that another task stays in
\* position o.  While `many` is FALSE the task is the only one in o.
\* While it is TRUE, either o stays filled, and `many` stays TRUE unless
\* o held exactly two tasks, no other position held two and no task was
\* in Q; or o held one task, and some other position holds the two.
Leaves(o, Q, more) ==
    LET rest == orphans.at \ {o} IN
    IF ~orphans.many
    THEN IF more THEN {} ELSE {[at |-> rest \cup Q, many |-> Q \cap rest # {}]}
    ELSE IF more
    THEN {[at |-> orphans.at \cup Q, many |-> m] : m \in IF Q \cap rest = {} THEN BOOLEAN ELSE {TRUE}}
    ELSE IF rest = {} THEN {} ELSE {[at |-> rest \cup Q, many |-> TRUE]}

\* get_latest_15m_kline ends and the candle is evaluated against the store
\* as it is now; a task that returns or raises is gone (nothing awaits it)
OrphanFetchReturn(o, r, more) ==
    /\ o \in orphans.at
    /\ o.w.pc = "candle"
    /\ orphans' \in Leaves(o, IF AfterFetch(o.w, o.sym, r, db).pc = "send"
                              THEN {[o EXCEPT !.w = AfterFetch(o.w, o.sym, r, db)]}
                              ELSE {}, more)
    /\ UNCHANGED <<db, lpc, workers, alerts, printed, uni, delivered, failed, tracked, call, pool>>

\* send_telegram ends; after a False or an exception the task is gone
OrphanSendReturn(o, r, more) ==
    /\ o \in orphans.at
    /\ o.w.pc = "send"
    /\ delivered' = DeliveredAfter(KeyOf(o.sym, o.w), r)
    /\ failed' = FailedAfter(KeyOf(o.sym, o.w), r)
    /\ orphans' \in Leaves(o, IF r.res = "true" THEN {[o EXCEPT !.w = AfterSend(o.w, r)]} ELSE {}, more)
    /\ UNCHANGED <<db, lpc, workers, alerts, printed, uni, tracked, call, pool>>

\* its alerts list belongs to the ended check_once and is never read again
OrphanRecord(o, more) ==
    /\ o \in orphans.at
    /\ o.w.pc = "sent"
    /\ db' = IF ShouldRecord(o.w.ok) THEN mark_alerted(db, o.sym, o.w.k.open_time) ELSE db
    /\ orphans' \in Leaves(o, {}, more)
    /\ UNCHANGED <<lpc, workers, alerts, printed, uni, delivered, failed, tracked, call, pool>>

\* ------------------------------------------------- interrupt and restart
\* KeyboardInterrupt, or the process being killed: every task is gone, the
\* file behind DB_PATH stays.
Interrupt ==
    /\ lpc # "stopped"
    /\ lpc' = "stopped"
    /\ workers' = [s \in Symbols |-> NoWorker]
    /\ orphans' = NoOrphans
    /\ alerts' = <<>>
    /\ printed' = "none"
    /\ uni' = "none"
    /\ UNCHANGED <<db, delivered, failed, tracked, call, pool>>

\* the bot is started again with the same DB_PATH
Restart ==
    /\ lpc = "stopped"
    /\ lpc' = "top"
    /\ UNCHANGED <<db, workers, orphans, alerts, printed, uni, delivered, failed, tracked, call, pool>>

Next ==
    \/ StartCycle
    \/ \E U \in SUBSET Symbols : UniverseOk(U)
    \/ UniverseFail
    \/ \E s \in Symbols : Acquire(s)
    \/ \E s \in Symbols, r \in FetchResults : FetchReturn(s, r)
    \/ \E s \in Symbols, r \in SendResults : SendReturn(s, r)
    \/ \E s \in Symbols : Record(s)
    \/ GatherReturn
    \/ GatherRaise
    \/ Wake
    \/ \E o \in orphans.at, r \in FetchResults, more \in BOOLEAN : OrphanFetchReturn(o, r, more)
    \/ \E o \in orphans.at, r \in SendResults, more \in BOOLEAN : OrphanSendReturn(o, r, more)
    \/ \E o \in orphans.at, more \in BOOLEAN : OrphanRecord(o, more)
    \/ Interrupt
    \/ Restart

Spec == Init /\ [][Next]_vars

RetrySpec == InitRetry /\ [][Next]_vars

\* Fairness.  The event loop runs every task that is ready, a sleep ends
\* after its delay and a send_telegram call ends (each post is bounded by
\* the 20 s timeout of its session).  Interrupt and Restart come from
\* outside and are not forced.
OrphanStep ==
    \E o \in orphans.at, more \in BOOLEAN :
        \/ \E r \in FetchResults : OrphanFetchReturn(o, r, more)
        \/ \E r \in SendResults : OrphanSendReturn(o, r, more)
        \/ OrphanRecord(o, more)

\* main_loop's own steps and the tasks left by ended cycles
LoopSpec ==
    /\ InitLoop /\ [][Next]_vars
    /\ WF_vars(StartCycle)
    /\ WF_vars(GatherRaise)
    /\ WF_vars(Wake)
    /\ WF_vars(OrphanStep)

\* ------------------------------------------------------ the dedup store
\* The three functions that open DB_PATH, applied on their own to any
\* table: by either of two workers, in any order (none of the three
\* awaits, so a call is one step of the event loop), with the process
\* killed and started again in between.  `call` keeps the last call, the
\* one before it, and the keys mark_alerted was called for.
Callers == {1, 2}
NoKey == <<"", 0>>

loopVars == <<lpc, workers, orphans, alerts, printed, uni, delivered, failed, tracked>>

StoreCall(fn, c, key, res, marked) ==
    [fn |-> fn, who |-> c, key |-> key, res |-> res, marked |-> marked,
     prev |-> <<call.fn, call.who, call.key>>]

InitStore ==
    /\ db \in SUBSET Keys
    /\ Idle
    /\ tracked = {}
    /\ call = [fn |-> "start", who |-> 0, key |-> NoKey, res |-> FALSE, marked |-> {}, prev |-> <<"none", 0, NoKey>>]
    /\ pool = NoPool

\* mark_alerted(sym, ot) called by worker c
StoreMark(c, sym, ot) ==
    /\ db' = mark_alerted(db, sym, ot)
    /\ call' = StoreCall("mark", c, <<sym, ot>>, FALSE, call.marked \cup {<<sym, ot>>})
    /\ UNCHANGED <<loopVars, pool>>

\* already_alerted(sym, ot) called by worker c
StoreExists(c, sym, ot) ==
    /\ call' = StoreCall("exists", c, <<sym, ot>>, already_alerted(db, sym, ot), call.marked)
    /\ UNCHANGED <<db, loopVars, pool>>

\* db_init() at the start of a cycle
StoreInit ==
    /\ db' = db_init(db)
    /\ call' = StoreCall("init", 0, NoKey, FALSE, call.marked)
    /\ UNCHANGED <<loopVars, pool>>

\* the process is killed and started again on the same DB_PATH: the first
\* thing the new process does with the file is db_init()
StoreRestart ==
    /\ db' = db_init(db)
    /\ call' = StoreCall("restart", 0, NoKey, FALSE, call.marked)
    /\ UNCHANGED <<loopVars, pool>>

StoreNext ==
    \/ \E c \in Callers, key \in Keys : StoreMark(c, key[1], key[2])
    \/ \E c \in Callers, key \in Keys : StoreExists(c, key[1], key[2])
    \/ StoreInit
    \/ StoreRestart

StoreSpec == InitStore /\ [][StoreNext]_vars

\* ------------------------------------- the retry loops and the sleep
\* get_latest_15m_kline and send_telegram applied on their own to every
\* run of answers, and main_loop's sleep computed for every length of
\* cycle (time.time() is taken not to run backwards: elapsed >= 0).
InitCall == Start /\ tracked = {}

CallKline(run, k) ==
    /\ call' = [fn |-> "kline", run |-> run, r |-> get_latest_15m_kline(run, k)]
    /\ UNCHANGED <<db, loopVars, pool>>

CallSend(run) ==
    /\ call' = [fn |-> "send", run |-> run, r |-> send_telegram(run)]
    /\ UNCHANGED <<db, loopVars, pool>>

\* a cycle that took `elapsed` seconds ended (`how`: check_once returned, or
\* raised into the except clause); main_loop computes the sleep
CallSleep(how, elapsed) ==
    /\ call' = [fn |-> "sleep", how |-> how, elapsed |-> elapsed, res |-> SleepFor(elapsed)]
    /\ UNCHANGED <<db, loopVars, pool>>

CallNext ==
    \/ \E run \in FetchRuns : \E k \in CandlesOf(run) : CallKline(run, k)
    \/ \E run \in SendRuns : CallSend(run)
    \/ \E how \in {"returned", "raised"}, elapsed \in 0..MaxElapsed : CallSleep(how, elapsed)

CallSpec == InitCall /\ [][CallNext]_vars

\* ------------------------------------------- a universe larger than 50
\* The workers of one check_once counted by where they are, so that the
\* universe can be larger than the semaphore: `new` created and not yet
\* inside `async with sem`, `fetch` inside it, `send` awaiting
\* send_telegram, `ended` returned or raised.  `sem` is the semaphore's
\* value, `exc` says that a worker raised and gather has not yet passed
\* the exception on.  Workers are interchangeable: which symbol a worker
\* has and what its candle is only decide how its fetch and its send end.
\* `left` holds the positions ("new", "fetch", "send") in which there are
\* workers of earlier calls of check_once: gather raised while they were
\* waiting, fetching or sending, and main_loop has called check_once
\* again since.  They use the semaphore and the session of their own
\* call, not those of this one.  A position of `left` stands for one or
\* more workers.
PoolSizes == (SemCap + 1)..(SemCap + MaxExtra)

\* how a worker goes on when get_latest_15m_kline, send_telegram ends
FetchEnds == {AfterFetch(NewWorker, s, r, store).pc : s \in Symbols, r \in FetchResults, store \in {{}, Keys}}
SendEnds == {AfterSend(NewWorker, r).pc : r \in SendResults}

Live(p) == p.new + p.fetch + p.send

\* the positions in which the counted call has workers
Filled(p) == {at \in {"new", "fetch", "send"} : p[at] > 0}

InitPool == Start /\ tracked = {}

\* main_loop calls check_once once the call before has returned or
\* raised: a new semaphore, and gather creates one task per symbol of a
\* universe of n symbols.  The workers the call before left running go on.
PoolStart(n) ==
    /\ pool.phase # "gather"
    /\ pool' = [phase |-> "gather", new |-> n, fetch |-> 0, send |-> 0, ended |-> 0, sem |-> SemCap, exc |-> FALSE,
                left |-> pool.left \cup Filled(pool)]
    /\ UNCHANGED <<db, loopVars, call>>

\* async with sem: a waiting worker takes a slot
PoolAcquire ==
    /\ pool.new > 0
    /\ pool.sem > 0
    /\ pool' = [pool EXCEPT !.new = @ - 1, !.fetch = @ + 1, !.sem = @ - 1]
    /\ UNCHANGED <<db, loopVars, call>>

PoolFetchReturnHolding(e) ==
    /\ pool.fetch > 0
    /\ pool' = [pool EXCEPT
            !.fetch = @ - 1,
            !.sem = IF e = "send" THEN @ ELSE @ + 1,
            !.send = IF e = "send" THEN @ + 1 ELSE @,
            !.ended = IF e = "send" THEN @ ELSE @ + 1,
            !.exc = @ \/ (e = "raised" /\ pool.phase = "gather")]
    /\ UNCHANGED <<db, loopVars, call>>

PoolFetchReturnLeak(e) ==
    /\ pool.fetch > 0
    /\ pool' = [pool EXCEPT
            !.fetch = @ - 1,
            !.send = IF e = "send" THEN @ + 1 ELSE @,
            !.ended = IF e = "send" THEN @ ELSE @ + 1,
            !.exc = @ \/ (e = "raised" /\ pool.phase = "gather")]
    /\ UNCHANGED <<db, loopVars, call>>

\* get_latest_15m_kline ends, by returning or by raising: leaving the
\* `async with` block releases the slot, then the worker returns, raises
\* or goes on to send_telegram, whether gather has raised or not.
PoolFetchReturn(e) ==
    /\ pool.fetch > 0
    /\ pool' = [pool EXCEPT
            !.fetch = @ - 1,
            !.sem = @ + 1,
            !.send = IF e = "send" THEN @ + 1 ELSE @,
            !.ended = IF e = "send" THEN @ ELSE @ + 1,
            !.exc = @ \/ (e = "raised" /\ pool.phase = "gather")]
    /\ UNCHANGED <<db, loopVars, call>>

\* send_telegram ends; the worker records, if it has to, and ends
PoolSendReturn(e) ==
    /\ pool.send > 0
    /\ pool' = [pool EXCEPT
            !.send = @ - 1,
            !.ended = @ + 1,
            !.exc = @ \/ (e = "raised" /\ pool.phase = "gather")]
    /\ UNCHANGED <<db, loopVars, call>>

\* every worker has returned: gather returns
PoolGatherReturn ==
    /\ pool.phase = "gather"
    /\ Live(pool) = 0
    /\ ~pool.exc
    /\ pool' = [pool EXCEPT !.phase = "joined"]
    /\ UNCHANGED <<db, loopVars, call>>

\* a worker has raised: gather raises, the other workers go on
PoolGatherRaise ==
    /\ pool.phase = "gather"
    /\ pool.exc
    /\ pool' = [pool EXCEPT !.phase = "raised", !.exc = FALSE]
    /\ UNCHANGED <<db, loopVars, call>>

\* A worker of an earlier call takes its step.  `more` says that another
\* worker of an earlier call stays in the position this one leaves.  The
\* semaphore of an earlier call is not kept, a waiting worker of it is
\* taken to find a slot: in a universe of SemCap + 1 symbols it does, the
\* worker that raised has released one.
StaysLeft(at, more) == IF more THEN pool.left ELSE pool.left \ {at}

PoolLeftAcquire(more) ==
    /\ "new" \in pool.left
    /\ pool' = [pool EXCEPT !.left = StaysLeft("new", more) \cup {"fetch"}]
    /\ UNCHANGED <<db, loopVars, call>>

PoolLeftFetchReturn(e, more) ==
    /\ "fetch" \in pool.left
    /\ pool' = [pool EXCEPT !.left = StaysLeft("fetch", more) \cup (IF e = "send" THEN {"send"} ELSE {})]
    /\ UNCHANGED <<db, loopVars, call>>

PoolLeftSendReturn(e, more) ==
    /\ "send" \in pool.left
    /\ pool' = [pool EXCEPT !.left = StaysLeft("send", more)]
    /\ UNCHANGED <<db, loopVars, call>>

PoolNext ==
    \/ \E n \in PoolSizes : PoolStart(n)
    \/ PoolAcquire
    \/ \E e \in FetchEnds : PoolFetchReturn(e)
    \/ \E e \in SendEnds : PoolSendReturn(e)
    \/ PoolGatherReturn
    \/ PoolGatherRaise
    \/ \E more \in BOOLEAN : PoolLeftAcquire(more)
    \/ \E e \in FetchEnds, more \in BOOLEAN : PoolLeftFetchReturn(e, more)
    \/ \E e \in SendEnds, more \in BOOLEAN : PoolLeftSendReturn(e, more)

\* The event loop runs every task that is ready, and every request ends
\* within its session's timeout, so every call of the two functions ends.
\* For the workers of earlier calls: the workers in a position are
\* finitely many, so, unless further ones come, the last of them leaves.
PoolSpec ==
    /\ InitPool /\ [][PoolNext]_vars
    /\ WF_vars(PoolAcquire)
    /\ WF_vars(\E e \in FetchEnds : PoolFetchReturn(e))
    /\ WF_vars(\E e \in SendEnds : PoolSendReturn(e))
    /\ WF_vars(PoolGatherReturn)
    /\ WF_vars(PoolGatherRaise)
    /\ WF_vars(PoolLeftAcquire(FALSE))
    /\ WF_vars(\E e \in FetchEnds : PoolLeftFetchReturn(e, FALSE))
    /\ WF_vars(\E e \in SendEnds : PoolLeftSendReturn(e, FALSE))

\* ------------------------------------------------------------ properties
\* worker s gets a candle from get_latest_15m_kline in this step and
\* evaluates it; Got(s) is that candle, GotKey(s) its key
Evaluates(s) == workers[s].pc = "fetch" /\ workers'[s].k # None

Got(s) == workers'[s].k

GotKey(s) == <<s, workers'[s].k.open_time>>

\* a task of an ended cycle gets a candle in this step, evaluates it and
\* goes on to call the notifier: o2 is the position it comes to.  (Where
\* other tasks are in o2 already, the step shows in `many`.)
LateSend(o2) ==
    /\ o2.w.pc = "send"
    /\ workers' = workers /\ lpc' = lpc
    /\ \/ o2 \notin orphans.at /\ o2 \in orphans'.at
       \/ /\ o2 \in orphans.at /\ ~orphans.many /\ orphans'.many
          /\ \E o \in orphans.at \ orphans'.at : o.sym = o2.sym /\ o.w.pc = "candle"

\* a task of an ended cycle ends its get_latest_15m_kline call in this step
LateEvaluation ==
    /\ workers' = workers /\ lpc' = lpc
    /\ \/ \E o \in orphans.at \ orphans'.at : o.w.pc = "candle"
       \/ \E o2 \in orphans'.at : LateSend(o2)

\* a task of an ended cycle that holds a True from send_telegram takes its
\* last step
LateRecord(o) ==
    /\ o \in orphans.at /\ o.w.pc = "sent"
    /\ workers' = workers /\ lpc' = lpc
    /\ o \notin orphans'.at

\* abs(pct) of a candle against the threshold, written without Qualifies
MeetsThreshold(k) == k.open # 0 /\ Abs(k.close - k.open) * 100 >= THRESHOLD * k.open

\* a post for `key` is answered "200" in this step
Delivers(key) ==
    \/ \E s \in Symbols :
        /\ workers[s].pc = "send" /\ KeyOf(s, workers[s]) = key
        /\ workers'[s].pc = "sent" /\ workers'[s].ok
    \/ \E o \in orphans.at :
        /\ o.w.pc = "send" /\ KeyOf(o.sym, o.w) = key
        /\ workers' = workers /\ lpc' = lpc
        /\ LET o2 == [o EXCEPT !.w = [o.w EXCEPT !.pc = "sent", !.ok = TRUE]] IN
            \/ o2 \notin orphans.at /\ o2 \in orphans'.at
            \/ o2 \in orphans.at /\ ~orphans.many /\ orphans'.many

\* this step is taken by a task that holds a True from its send_telegram
\* call for `key`: a worker of the cycle, or a task of an ended cycle
StepAfterSuccess(key) ==
    \/ \E s \in Symbols :
        /\ workers[s].pc = "sent" /\ workers[s].ok /\ KeyOf(s, workers[s]) = key
        /\ workers'[s].pc = "done"
    \/ \E o \in orphans.at :
        /\ o.w.pc = "sent" /\ o.w.ok /\ KeyOf(o.sym, o.w) = key
        /\ workers' = workers /\ lpc' = lpc
        /\ \/ o \notin orphans'.at
           \/ orphans.many /\ orphans'.at = orphans.at

\* C1: over any run of cycles, interrupts and restarts on the same store,
\* no key has a second confirmed delivery: a post answered "200" is never
\* for a key that a post was answered "200" for before.
AtMostOneDelivery ==
    [][\A key \in Keys : Delivers(key) => key \notin delivered]_vars

\* C2: a key enters the store only in a step of a task whose own
\* send_telegram call for that key returned True (so the key was
\* delivered); a task whose call returned False ends without writing.
RecordOnlyAfterSuccess ==
    [][/\ \A key \in Keys : (key \notin db /\ key \in db') =>
                (key \in delivered /\ StepAfterSuccess(key))
       /\ \A s \in Symbols :
            (workers[s].pc = "sent" /\ ~workers[s].ok /\ workers'[s].pc = "done") => db' = db
      ]_vars

\* C2 happens: one worker has recorded after a True, another has ended
\* after a False with its key not in the store.
RecordedAndNotRecorded ==
    \E s, t \in Symbols :
        /\ workers[s].pc = "done" /\ workers[s].ok /\ KeyOf(s, workers[s]) \in db
        /\ workers[t].pc = "done" /\ workers[t].calls = 1 /\ ~workers[t].ok
        /\ KeyOf(t, workers[t]) \notin db

\* C3: the store never loses a key, and a worker that evaluates a candle
\* meeting the threshold whose key is in the store returns without calling
\* the notifier; nor does a task of an ended cycle start calling the
\* notifier for a key that is in the store.
NoAttemptOnceRecorded ==
    [][/\ db \subseteq db'
       /\ \A s \in Symbols :
            (Evaluates(s) /\ MeetsThreshold(Got(s)) /\ GotKey(s) \in db)
                => (workers'[s].pc = "done" /\ workers'[s].calls = 0 /\ delivered' = delivered)
       /\ \A o2 \in orphans'.at :
            LateSend(o2) => (KeyOf(o2.sym, o2.w) \notin db /\ delivered' = delivered)
      ]_vars

\* C3 happens: a worker has returned without a call on a qualifying candle
\* whose key is recorded.
SkippedRecordedKey ==
    \E s \in Symbols :
        /\ workers[s].pc = "done" /\ workers[s].calls = 0
        /\ workers[s].k # None /\ MeetsThreshold(workers[s].k)
        /\ KeyOf(s, workers[s]) \in db

\* C4: a worker that evaluates a candle with abs(pct) >= THRESHOLD whose
\* key is not in the store calls the notifier, once; it never calls it a
\* second time; and when the call returned True its next step adds one
\* row, the one of its key, to the store (the key was not there, and is
\* the only one added) and one entry to the cycle's alerts.  The same for
\* a task of an ended cycle: one call, and one row added after a True.
OneAttemptOneRecord ==
    [][/\ \A s \in Symbols :
            /\ (Evaluates(s) /\ MeetsThreshold(Got(s)) /\ GotKey(s) \notin db)
                    => (workers'[s].pc = "send" /\ workers'[s].calls = 1)
            /\ workers[s].pc \in {"send", "sent", "done", "raised"}
                    => workers'[s].calls <= workers[s].calls
            /\ (workers[s].pc = "sent" /\ workers[s].ok /\ workers'[s].pc = "done")
                    => /\ KeyOf(s, workers[s]) \notin db
                       /\ db' = db \cup {KeyOf(s, workers[s])}
                       /\ Len(alerts') = Len(alerts) + 1
       /\ \A o2 \in orphans'.at : LateSend(o2) => o2.w.calls = 1
       /\ \A o \in orphans.at :
            LateRecord(o) => (KeyOf(o.sym, o.w) \notin db /\ db' = db \cup {KeyOf(o.sym, o.w)})
      ]_vars

\* C5: a worker that evaluates a candle with abs(pct) < THRESHOLD returns
\* without calling the notifier and the step changes neither the store nor
\* the deliveries nor the cycle's alerts.  The same for a task of an ended
\* cycle: it goes on to call the notifier only with a candle that meets
\* the threshold, and its evaluation changes none of the three.
BelowThresholdNoEffect ==
    [][/\ \A s \in Symbols :
            (Evaluates(s) /\ Got(s).open # 0 /\ ~MeetsThreshold(Got(s)))
                => /\ workers'[s].pc = "done" /\ workers'[s].calls = 0
                   /\ db' = db /\ delivered' = delivered /\ alerts' = alerts
       /\ \A o2 \in orphans'.at : LateSend(o2) => MeetsThreshold(o2.w.k)
       /\ LateEvaluation => (db' = db /\ delivered' = delivered /\ alerts' = alerts)
      ]_vars

\* C5 happens: a worker has returned on the -5.9% candle, which is short
\* of the threshold by less than one percent.
SkippedSmallMove ==
    \E s \in Symbols :
        /\ workers[s].pc = "done" /\ workers[s].calls = 0
        /\ workers[s].k # None /\ workers[s].k.open # 0 /\ ~MeetsThreshold(workers[s].k)
        /\ Abs(workers[s].k.close - workers[s].k.open) * 100 > (THRESHOLD - 1) * workers[s].k.open

\* a worker's failure of one of the three symbol-local kinds
LocalFailure(w) ==
    \/ w.pc = "done" /\ w.k = None
    \/ w.k # None /\ w.k.open = 0
    \/ w.pc = "done" /\ w.calls = 1 /\ ~w.ok

\* C6: a worker that got a candle with open = 0 has skipped it: it has
\* returned, without raising and without calling the notifier.
ZeroOpenSkipped ==
    \A s \in Symbols :
        (workers[s].k # None /\ workers[s].k.open = 0)
            => (workers[s].pc = "done" /\ workers[s].calls = 0)

\* C7: when a cycle in which some worker met a symbol-local failure (candle
\* absent, zero open, send failure) and no worker raised for another
\* reason has ended, it has returned its result and every worker of it has
\* run to its end.
FailureIsolated ==
    ( /\ lpc = "sleep" /\ uni = "ok"
      /\ \E s \in Symbols : LocalFailure(workers[s])
      /\ \A t \in Symbols : workers[t].pc = "raised" => workers[t].k.open = 0 /\ workers[t].k # None )
    => ( /\ printed # "error"
         /\ \A t \in Symbols : workers[t].pc \in {"none", "done"} )

\* C8: in a cycle whose get_symbols raised there is no worker (so no candle
\* fetch, no notification, no record of that cycle) and no alert, the loop
\* has printed the error and sleeps; a row written meanwhile is written by
\* a task of an earlier cycle that holds a True from send_telegram; and
\* the loop goes on to start the next cycle unless the process is
\* interrupted.
UniverseFailureSkipsCycle ==
    /\ [](uni = "error" =>
            /\ lpc = "sleep" /\ printed = "error"
            /\ \A s \in Symbols : workers[s] = NoWorker
            /\ alerts = <<>>)
    /\ [][uni = "error" /\ uni' = "error" =>
            db' \subseteq db \cup {KeyOf(o.sym, o.w) : o \in {x \in orphans.at : x.w.pc = "sent"}}]_vars
    /\ (uni = "error" ~> (lpc = "universe" \/ lpc = "stopped"))

\* C8 happens: the loop sleeps after a failed universe fetch.
SleepingAfterUniverseFailure ==
    uni = "error" /\ lpc = "sleep" /\ \A s \in Symbols : workers[s].pc = "none"

\* C9: whenever a cycle is about to raise or has raised (a worker raised,
\* or get_symbols did), a new cycle starts later, unless the process is
\* interrupted from outside.
LoopSurvivesErrors ==
    ((lpc = "gather" /\ \E s \in Symbols : workers[s].pc = "raised") \/ printed = "error")
        ~> (lpc = "universe" \/ lpc = "stopped")

\* C9 happens: a new cycle has started while a task of a cycle that raised
\* is still running.
NewCycleAfterRaise == lpc = "universe" /\ orphans.at # {}

\* C10: a worker whose send_telegram call returned False ends without
\* changing the store, its key is not in the store then, and a worker of
\* a later cycle that evaluates a candle still meeting the threshold, of a
\* key whose send failed, calls the notifier again.
RetryAfterFailedSend ==
    [][\A s \in Symbols :
        /\ (workers[s].pc = "sent" /\ ~workers[s].ok /\ workers'[s].pc = "done")
                => (db' = db /\ KeyOf(s, workers[s]) \in failed /\ KeyOf(s, workers[s]) \notin db')
        /\ (Evaluates(s) /\ MeetsThreshold(Got(s)) /\ GotKey(s) \in failed)
                => (workers'[s].pc = "send" /\ workers'[s].calls = 1)
      ]_vars

\* C11: mark_alerted is idempotent.  Whatever the table holds and whichever
\* worker calls, a call adds exactly its key; a call for a key that is
\* already there (from the table's start or from an earlier call, of the
\* same or of the other worker) leaves the table as it is; and calling
\* again on the result changes nothing: no second row, no error.
MarkIdempotent ==
    [][call'.fn = "mark" =>
        /\ db' = db \cup {call'.key}
        /\ (call'.key \in db => db' = db)
        /\ mark_alerted(db', call'.key[1], call'.key[2]) = db'
        /\ db' \subseteq Keys
      ]_vars

\* C11 happens: a worker has called mark_alerted right after the other
\* worker called it with the same key.
MarkedTwice ==
    /\ call.fn = "mark"
    /\ call.prev[1] = "mark" /\ call.prev[3] = call.key /\ call.prev[2] # call.who
    /\ call.key \in db

\* C12: the table only grows.  No call of mark_alerted or db_init and no
\* kill and restart makes already_alerted stop reporting a key, and
\* already_alerted reports every key mark_alerted was called for.
RecordsOnlyGrow ==
    /\ [][\A key \in Keys :
            already_alerted(db, key[1], key[2]) => already_alerted(db', key[1], key[2])]_vars
    /\ []((call.fn = "exists" /\ call.key \in call.marked) => call.res)

\* C12 happens: right after a restart already_alerted has reported a key
\* that was recorded before it.
StillThereAfterRestart ==
    /\ call.fn = "exists" /\ call.res
    /\ call.key \in call.marked
    /\ call.prev[1] = "restart"

\* the answer is one the service gives when a request fails: anything but
\* a good status
Failing(a) == a \notin {"200", "empty"}

\* C13: a call of get_latest_15m_kline makes at most 3 requests, sleeps 1,
\* 3, 5 seconds after the failed attempts 1, 2, 3, returns None when every
\* answer was a failing one, and never ends by raising.
KlineNeverRaises ==
    call.fn = "kline" =>
        /\ call.r.n <= 3
        /\ Len(call.r.slept) <= 3
        /\ \A i \in 1..Len(call.r.slept) : call.r.slept[i] = <<1, 3, 5>>[i]
        /\ (\A i \in 1..Len(call.run) : Failing(call.run[i])) => call.r.res = "none"
        /\ call.r.res # "raise"

\* C14: a call of send_telegram makes at most 3 posts, returns True exactly
\* when a post got a good answer, which then is its last post, returns
\* False when three posts failed, and never ends by raising.
SendNeverRaises ==
    call.fn = "send" =>
        /\ call.r.n <= 3
        /\ (call.r.res = "true") <=> (\E i \in 1..Len(call.run) : ~Failing(call.run[i]))
        /\ call.r.res = "true" => (call.r.n = Len(call.run) /\ ~Failing(call.run[call.r.n]))
        /\ (Len(call.run) = 3 /\ \A i \in 1..3 : Failing(call.run[i])) => call.r.res = "false"
        /\ call.r.res # "raise"

\* C18: the sleep after a cycle, returned or raised, is
\* max(0, POLL_SECONDS - elapsed): never negative, and start to start the
\* loop takes max(POLL_SECONDS, elapsed).
CadenceKept ==
    call.fn = "sleep" =>
        /\ call.res >= 0
        /\ call.res = (IF call.elapsed < POLL_SECONDS THEN POLL_SECONDS - call.elapsed ELSE 0)
        /\ call.elapsed + call.res = (IF call.elapsed > POLL_SECONDS THEN call.elapsed ELSE POLL_SECONDS)

\* C18 happens: a cycle that raised overran the period and the loop does
\* not sleep.
OverrunNoSleep ==
    call.fn = "sleep" /\ call.how = "raised" /\ call.elapsed > POLL_SECONDS /\ call.res = 0

\* C15: cycles are strictly sequential: while a cycle runs (from its start
\* to the end of its gather) no worker of an earlier cycle is still
\* sending or about to write its record.
CyclesSequential ==
    lpc \in {"universe", "gather"} => orphans.at = {}

\* C16: at no time are more than 50 workers inside get_latest_15m_kline
\* (its retries and backoff sleeps included), however many symbols the
\* universe has: the fetching workers of the counted call, and one more
\* when a worker of an earlier call is fetching as well.
FetchesBounded ==
    /\ pool.fetch + (IF "fetch" \in pool.left THEN 1 ELSE 0) <= SemCap
    /\ pool.sem >= 0

\* this step leaves workers of the call that raised to go on beside the
\* next call
LeavesWorkers == pool.phase = "raised" /\ Live(pool) > 0 /\ pool'.phase = "gather"

\* C17: every cycle terminates: gather always comes to return or to
\* raise, and it returns only when every worker has ended, the workers
\* that waited for a slot included; the workers that are still waiting,
\* fetching or sending when gather raises all end as well, unless
\* main_loop starts the next cycle before; and the workers that go on
\* beside later calls all end, once no later call leaves further ones.
CycleTerminates ==
    /\ []<>(pool.phase # "gather")
    /\ []<>(pool.phase # "raised" \/ Live(pool) = 0)
    /\ [](pool.phase = "joined" => Live(pool) = 0)
    /\ (<>[][~LeavesWorkers]_vars) => <>[](pool.left = {})

\* C17 happens: gather has returned after more workers than slots ended.
JoinedLargeUniverse ==
    pool.phase = "joined" /\ pool.ended > SemCap

\* C20: a slot is held exactly by the workers that are fetching: the
\* workers that are sending hold none, a waiting worker can take a slot
\* whenever fewer than 50 are fetching, however many are sending.
SlotOnlyWhileFetching ==
    /\ pool.phase # "idle" => pool.sem = SemCap - pool.fetch
    /\ (pool.new > 0 /\ pool.fetch < SemCap) => ENABLED PoolAcquire

\* C20 happens: more workers than slots are sending at once, every slot
\* is free.
MoreSendsThanSlots ==
    pool.send > SemCap /\ pool.sem = SemCap

\* the list main_loop reports for the cycle that has ended
Reported == IF printed = "sent" THEN alerts ELSE <<>>

\* the workers of the cycle whose notification was delivered
DeliveredBy == {s \in Symbols : workers[s].ok}

\* C19: when a cycle that got its universe has ended, the list it reports
\* has one entry for each symbol whose notification was delivered and
\* recorded in it and no other entry, and it has reported "no new alerts"
\* if and only if no notification was delivered in it.
CycleSummaryExact ==
    (lpc = "sleep" /\ uni = "ok") =>
        /\ {Reported[i][1] : i \in 1..Len(Reported)} =
                {s \in DeliveredBy : KeyOf(s, workers[s]) \in db}
        /\ Len(Reported) = Cardinality(DeliveredBy)
        /\ (printed = "noalerts") <=> (DeliveredBy = {})

====
